---- MODULE Spec2Model ----
(***************************************************************************)
(* Model of decode_aweme_id.py: the aweme-id codec (decode_aweme_id,       *)
(* forge_aweme_like_id), the validator (validate_decode_algorithm) and the *)
(* correlator (statistical_analysis).                                      *)
(*                                                                         *)
(* Python integers are unbounded and the ids are 64 bits wide, so an       *)
(* integer is modelled as an infinite two's-complement number: a finite    *)
(* little-endian sequence of 16-bit limbs d and a sign s that stands for   *)
(* the endless run of 0-bits (s = 0) or 1-bits (s = 1) above them.  That   *)
(* is the meaning Python gives to >>, <<, & and | on negative integers.    *)
(* Decimal strings are sequences of one-character strings.                 *)
(***************************************************************************)
EXTENDS Integers, Sequences, FiniteSets, TLC

VARIABLES
    pc,        \* where the program is: "idle", inside a call, or after one
    forged,    \* the last forge_aweme_like_id call: arguments and returned id
    decoded,   \* the last decode_aweme_id call: arguments and result
    videos,    \* validate_decode_algorithm: test_data["videos"]
    vi,        \* validate_decode_algorithm: records the for loop has taken
    results,   \* validate_decode_algorithm: the results dict
    status,    \* validate_decode_algorithm: status of the last record
    flagged,   \* validate_decode_algorithm: ids printed as large errors
    report,    \* validate_decode_algorithm: the printed statistics
    sa_args,   \* statistical_analysis: ids and platform_labels
    sa_out,    \* statistical_analysis: what it printed, or the exception
    past       \* what the earlier runs of the call under way, on the same
               \* input, produced

vars == <<pc, forged, decoded, videos, vi, results, status, flagged, report,
          sa_args, sa_out, past>>

codecVars == <<forged, decoded>>
validatorVars == <<videos, vi, results, status, flagged, report>>
correlatorVars == <<sa_args, sa_out>>

---------------------------------------------------------------------------
(* Python int: representation                                              *)

LimbBits == 2 * 8
Base == 2 ^ LimbBits

Max2(x, y) == IF x >= y THEN x ELSE y

Ext(a) == IF a.s = 1 THEN Base - 1 ELSE 0

Limb(a, i) == IF i >= 1 /\ i <= Len(a.d) THEN a.d[i] ELSE Ext(a)

RECURSIVE Strip(_, _)
Strip(d, e) ==
    IF Len(d) > 0 /\ d[Len(d)] = e THEN Strip(SubSeq(d, 1, Len(d) - 1), e) ELSE d

Norm(a) == [s |-> a.s, d |-> Strip(a.d, Ext(a))]

RECURSIVE NatLimbs(_)
NatLimbs(n) == IF n = 0 THEN <<>> ELSE <<n % Base>> \o NatLimbs(n \div Base)

\* a small non-negative literal
Nat2Int(n) == [s |-> 0, d |-> NatLimbs(n)]

\* a non-negative literal written limb by limb, least significant first
Limbs2Int(d) == Norm([s |-> 0, d |-> d])

Zero == Nat2Int(0)
One == Nat2Int(1)

IsNeg(a) == a.s = 1

---------------------------------------------------------------------------
(* Python int: bit operations  & | >> <<                                   *)

RECURSIVE BitAnd(_, _)
BitAnd(x, y) ==
    IF x = 0 \/ y = 0 THEN 0
    ELSE (x % 2) * (y % 2) + 2 * BitAnd(x \div 2, y \div 2)

RECURSIVE BitOr(_, _)
BitOr(x, y) ==
    IF x = 0 THEN y
    ELSE IF y = 0 THEN x
    ELSE (IF x % 2 = 1 \/ y % 2 = 1 THEN 1 ELSE 0) + 2 * BitOr(x \div 2, y \div 2)

And(a, b) ==
    LET n == Max2(Len(a.d), Len(b.d))
    IN  Norm([s |-> a.s * b.s,
              d |-> [i \in 1..n |-> BitAnd(Limb(a, i), Limb(b, i))]])

Or(a, b) ==
    LET n == Max2(Len(a.d), Len(b.d))
    IN  Norm([s |-> IF a.s = 1 \/ b.s = 1 THEN 1 ELSE 0,
              d |-> [i \in 1..n |-> BitOr(Limb(a, i), Limb(b, i))]])

Shr(a, k) ==
    LET q == k \div LimbBits
        r == k % LimbBits
        n == Max2(Len(a.d) - q, 0)
    IN  Norm([s |-> a.s,
              d |-> [i \in 1..n |->
                        (Limb(a, i + q) \div 2 ^ r)
                        + (Limb(a, i + q + 1) % 2 ^ r) * 2 ^ (LimbBits - r)]])

Shl(a, k) ==
    LET q == k \div LimbBits
        r == k % LimbBits
        n == Len(a.d) + q + 1
    IN  Norm([s |-> a.s,
              d |-> [i \in 1..n |->
                        IF i <= q THEN 0
                        ELSE ((Limb(a, i - q) * 2 ^ r) % Base)
                             + (IF i - q - 1 >= 1
                                THEN Limb(a, i - q - 1) \div 2 ^ (LimbBits - r)
                                ELSE 0)]])

---------------------------------------------------------------------------
(* Python int: arithmetic  + - abs < <= min max sum                        *)

RECURSIVE AddFrom(_, _, _, _, _)
AddFrom(a, b, i, n, c) ==
    IF i > n THEN <<>>
    ELSE LET t == Limb(a, i) + Limb(b, i) + c
         IN  <<t % Base>> \o AddFrom(a, b, i + 1, n, t \div Base)

Add(a, b) ==
    LET n == Max2(Len(a.d), Len(b.d)) + 1
        d == AddFrom(a, b, 1, n, 0)
    IN  Norm([s |-> d[n] \div (Base \div 2), d |-> d])

Not(a) == [s |-> 1 - a.s, d |-> [i \in 1..Len(a.d) |-> Base - 1 - a.d[i]]]

Neg(a) == Add(Not(a), One)

Sub(a, b) == Add(a, Neg(b))

Abs(a) == IF IsNeg(a) THEN Neg(a) ELSE a

Less(a, b) == IsNeg(Sub(a, b))

LessEq(a, b) == ~Less(b, a)

RECURSIVE SumSeq(_)
SumSeq(q) == IF q = <<>> THEN Zero ELSE Add(Head(q), SumSeq(Tail(q)))

RECURSIVE MinSeq(_)
MinSeq(q) ==
    IF Len(q) = 1 THEN q[1]
    ELSE LET m == MinSeq(Tail(q)) IN IF Less(m, q[1]) THEN m ELSE q[1]

RECURSIVE MaxSeq(_)
MaxSeq(q) ==
    IF Len(q) = 1 THEN q[1]
    ELSE LET m == MaxSeq(Tail(q)) IN IF Less(q[1], m) THEN m ELSE q[1]

---------------------------------------------------------------------------
(* str(int), hex(int), bin(int) and int(str)                               *)
(* The conversions work on a few digits at a time, as CPython's do: a      *)
(* division (or multiplication) of the limbs by base ^ w yields (or takes  *)
(* in) w digits.                                                           *)

DigitChars == <<"0", "1", "2", "3", "4", "5", "6", "7", "8", "9",
                "a", "b", "c", "d", "e", "f">>

DecimalChars == {DigitChars[i] : i \in 1..10}

DigitVal(c) == (CHOOSE i \in 1..10 : DigitChars[i] = c) - 1

\* limbs d[1..i] divided by the small number k, r the remainder carried in
\* from the limbs above: <<quotient limbs, remainder>>
RECURSIVE DivStep(_, _, _, _)
DivStep(d, i, k, r) ==
    IF i = 0 THEN <<<<>>, r>>
    ELSE LET cur == r * Base + d[i]
             rest == DivStep(d, i - 1, k, cur % k)
         IN  <<Append(rest[1], cur \div k), rest[2]>>

\* the w digits of v < base ^ w, zero-padded
ChunkDigits(v, base, w) ==
    [j \in 1..w |-> DigitChars[((v \div base ^ (w - j)) % base) + 1]]

\* the digits of a non-negative integer, most significant first, zero-padded
\* to a multiple of w
RECURSIVE Digits(_, _, _)
Digits(m, base, w) ==
    IF m.d = <<>> THEN <<>>
    ELSE LET qr == DivStep(m.d, Len(m.d), base ^ w, 0)
         IN  Digits(Limbs2Int(qr[1]), base, w) \o ChunkDigits(qr[2], base, w)

RECURSIVE DropZeros(_)
DropZeros(str) ==
    IF Len(str) > 1 /\ str[1] = "0" THEN DropZeros(Tail(str)) ELSE str

Render(a, prefix, base, w) ==
    (IF IsNeg(a) THEN <<"-">> ELSE <<>>) \o prefix
    \o DropZeros(<<"0">> \o Digits(Abs(a), base, w))

Str(a) == Render(a, <<>>, 10, 4)
Hex(a) == Render(a, <<"0", "x">>, 16, 3)
Bin(a) == Render(a, <<"0", "b">>, 2, 12)

\* limbs d[i..] times the small number k plus the carry c
RECURSIVE MulAddFrom(_, _, _, _)
MulAddFrom(d, i, k, c) ==
    IF i > Len(d) THEN (IF c = 0 THEN <<>> ELSE <<c>>)
    ELSE LET t == d[i] * k + c
         IN  <<t % Base>> \o MulAddFrom(d, i + 1, k, t \div Base)

\* the value of the digits str[i..j], at most four of them
RECURSIVE SmallVal(_, _, _)
SmallVal(str, i, j) ==
    IF j < i THEN 0 ELSE SmallVal(str, i, j - 1) * 10 + DigitVal(str[j])

\* the value of the first n digits of str
RECURSIVE ParseDigits(_, _)
ParseDigits(str, n) ==
    IF n = 0 THEN Zero
    ELSE LET c == IF n % 4 = 0 THEN 4 ELSE n % 4
         IN  Limbs2Int(MulAddFrom(ParseDigits(str, n - c).d, 1, 10 ^ c,
                                  SmallVal(str, n - c + 1, n)))

HasSign(str) == Len(str) > 0 /\ str[1] \in {"-", "+"}

Unsigned(str) == IF HasSign(str) THEN Tail(str) ELSE str

\* int(str) raises ValueError unless the text is an optionally signed run of
\* decimal digits
IsIntLiteral(str) ==
    /\ Len(Unsigned(str)) > 0
    /\ \A i \in 1..Len(Unsigned(str)) : Unsigned(str)[i] \in DecimalChars

ParseInt(str) ==
    LET m == ParseDigits(Unsigned(str), Len(Unsigned(str)))
    IN  IF HasSign(str) /\ str[1] = "-" THEN Neg(m) ELSE m

---------------------------------------------------------------------------
(* decode_aweme_id and forge_aweme_like_id                                 *)

None == [none |-> TRUE]

Raised(r) == "raised" \in DOMAIN r

\* 0xFFFFFFFF
Mask32 == Limbs2Int(<<\hFFFF, \hFFFF>>)

\* datetime.fromtimestamp(ts_sec, tz=utc) raises outside the years 1..9999,
\* and .astimezone(LA_TZ) raises when the local time (UTC-7:52:58 in year 1)
\* would fall before year 1.
MinTimestamp == ParseInt(<<"-", "6", "2", "1", "3", "5", "5", "6", "8", "4", "2", "2">>)
MaxTimestamp == ParseInt(<<"2", "5", "3", "4", "0", "2", "3", "0", "0", "7", "9", "9">>)

DateInRange(ts_sec) == LessEq(MinTimestamp, ts_sec) /\ LessEq(ts_sec, MaxTimestamp)

\* mutant: worker_id taken one bit too low
scheme1_worker11(low32) ==
    [datacenter_id |-> And(Shr(low32, 22), Nat2Int(\h3FF)),
     worker_id     |-> And(Shr(low32, 11), Nat2Int(\h3FF)),
     sequence      |-> And(low32, Nat2Int(\hFFF))]

scheme1(low32) ==
    [datacenter_id |-> And(Shr(low32, 22), Nat2Int(\h3FF)),
     worker_id     |-> And(Shr(low32, 12), Nat2Int(\h3FF)),
     sequence      |-> And(low32, Nat2Int(\hFFF))]

scheme2(low32) ==
    [datacenter_id |-> And(Shr(low32, 24), Nat2Int(\hFF)),
     worker_id     |-> And(Shr(low32, 16), Nat2Int(\hFF)),
     sequence      |-> And(low32, Nat2Int(\hFFFF))]

scheme3(low32) ==
    [shard_id |-> And(Shr(low32, 16), Nat2Int(\hFFFF)),
     sequence |-> And(low32, Nat2Int(\hFFFF))]

scheme4(low32) ==
    [byte3 |-> And(Shr(low32, 24), Nat2Int(\hFF)),
     byte2 |-> And(Shr(low32, 16), Nat2Int(\hFF)),
     byte1 |-> And(Shr(low32, 8), Nat2Int(\hFF)),
     byte0 |-> And(low32, Nat2Int(\hFF))]

low32_analysis(low32) ==
    [scheme1_10_10_12 |-> scheme1(low32),
     scheme2_8_8_16   |-> scheme2(low32),
     scheme3_16_16    |-> scheme3(low32),
     scheme4_bytes    |-> scheme4(low32)]

\* mutant: the timestamp shifted out one bit short
ts_sec_of_shift31(n) == Shr(n, 31)

ts_sec_of(n) == Shr(n, 32)

low32_of(n) == And(n, Mask32)

\* The returned dict, or [raised |-> ...] for the exception that leaves the
\* function.  The two ISO date strings of the dict are left out: only
\* whether building them raises is modelled.
decode_aweme_id(id_str, analyze_low32) ==
    IF ~IsIntLiteral(id_str) THEN [raised |-> "ValueError"]
    ELSE LET n == ParseInt(id_str)
             ts_sec == ts_sec_of(n)
             low32 == low32_of(n)
             result == [id            |-> id_str,
                        timestamp_sec |-> Str(ts_sec),
                        low32_dec     |-> Str(low32),
                        low32_hex     |-> Hex(low32),
                        low32_bin     |-> Bin(low32)]
         IN  IF ~DateInRange(ts_sec) THEN [raised |-> "DateRangeError"]
             ELSE IF analyze_low32
                  THEN [k \in DOMAIN result \cup {"low32_analysis"} |->
                           IF k = "low32_analysis" THEN low32_analysis(low32)
                           ELSE result[k]]
                  ELSE result

\* mutant: the timestamp is not shifted clear of the low 32 bits
forge_aweme_like_id_shift16(ts_sec, low32, randbits) ==
    LET low == IF low32 = None THEN randbits ELSE low32
    IN  Or(Shl(ts_sec, 16), And(low, Mask32))

\* mutant: no value is drawn when low32 is left out
forge_aweme_like_id_no_draw(ts_sec, low32, randbits) ==
    LET low == IF low32 = None THEN Zero ELSE low32
    IN  Or(Shl(ts_sec, 32), And(low, Mask32))

\* randbits is the value secrets.randbits(32) returns if it is called
forge_aweme_like_id(ts_sec, low32, randbits) ==
    LET low == IF low32 = None THEN randbits ELSE low32
    IN  Or(Shl(ts_sec, 32), And(low, Mask32))

---------------------------------------------------------------------------
(* Inputs                                                                  *)

Pow2(k) == Shl(One, k)

\* 2^32 and 2^64
Two32 == Limbs2Int(<<0, 0, 1>>)
Two64 == Limbs2Int(<<0, 0, 0, 0, 1>>)

InU32(a) == LessEq(Zero, a) /\ Less(a, Two32)
InU64(a) == LessEq(Zero, a) /\ Less(a, Two64)

\* ts_sec arguments: in range (few and many decimal digits, both ends of the
\* range) and out of range
TsPool ==
    {Zero, Nat2Int(9), Nat2Int(10), Nat2Int(1665565634), Sub(Two32, One),
     Two32, Neg(One)}

\* low32 arguments: every single bit, every all-but-one-bit pattern, the two
\* ends of the range, and values out of range
LowPool ==
    {Pow2(k) : k \in 0..31} \cup {Sub(Mask32, Pow2(k)) : k \in 0..31}
    \cup {Zero, Mask32, Limbs2Int(<<\hBEEF, \hDEAD>>)}
    \cup {Two32, Add(Two32, Nat2Int(5)), Neg(One)}

\* what secrets.randbits(32) can return
RandPool == {Zero, One, Limbs2Int(<<\h0D23, \h7481>>), Mask32}

\* the sample ids of the source (lines 510-516)
Douyin1 == <<"7", "1", "5", "3", "5", "4", "9", "9", "2", "9", "3", "2", "6", "1", "2", "0", "2", "2", "7">>
Douyin3 == <<"7", "1", "9", "6", "6", "1", "8", "5", "9", "7", "4", "9", "6", "5", "2", "4", "0", "6", "7">>
TikTok1 == <<"7", "5", "5", "9", "6", "8", "4", "9", "3", "9", "6", "8", "4", "4", "0", "0", "4", "1", "4">>

\* ids handed to decode_aweme_id directly: valid ids, ids outside
\* [0, 2^64), and text that is no integer
IdStrPool ==
    {Douyin1, TikTok1, <<"0">>, <<"9">>, Str(Sub(Two64, One)),
     <<"-", "1">>, Str(Neg(ParseInt(Douyin1))), Str(Two64),
     Str(Add(Two64, ParseInt(Douyin1))),
     Str(Shl(Add(MaxTimestamp, One), 32)),
     <<"1", ".", "5">>, <<>>}

\* records of aweme_ids_output.json: three id and create_time pairs of the
\* source's sample list (lines 510-514), and pairs whose decoded timestamp is
\* off by 0, -5, +5 and +6 seconds.  aweme_ids.py writes no source other
\* than "Douyin" and "TikTok".
Video(aweme_id, create_time, source) ==
    [aweme_id |-> aweme_id, create_time |-> Nat2Int(create_time), source |-> source]

VideoPool ==
    {Video(Douyin1, 1665565640, "Douyin"),
     Video(Douyin3, 1675593344, "Douyin"),
     Video(Douyin1, 1665565634, "Douyin"),
     Video(Douyin1, 1665565639, "Douyin"),
     Video(TikTok1, 1760126305, "TikTok"),
     Video(TikTok1, 1760126304, "TikTok"),
     Video(TikTok1, 1760126310, "TikTok")}

MaxVideos == 3

\* how many times a call is made on the same input
MaxRuns == 2

\* the sequences over S of length at most n
SeqsUpTo(S, n) == UNION {[1..k -> S] : k \in 0..n}

\* ids handed to statistical_analysis: two sample ids of the source that
\* share a sequence number, an id that shares its shard id with the first,
\* and one that shares its sequence number with that; their timestamps have
\* ten, one and two decimal digits
IdPool ==
    {Douyin1, Douyin3, Str(Limbs2Int(<<7, 29825, 9>>)), Str(Limbs2Int(<<7, 5, 10>>))}

LabelPool == {"Douyin-1", "TikTok-1"}

MaxIds == 3

\* the platform_labels a caller passes with ids: none, or one per id
LabelsFor(ids) == {None} \cup {[list |-> l] : l \in [1..Len(ids) -> LabelPool]}

---------------------------------------------------------------------------
(* validate_decode_algorithm                                               *)

\* mutant: the results dict outlives the call, so a later call goes on
\* counting in it
results0_kept ==
    IF results = None
    THEN [total |-> 0, exact_match |-> 0, close_match |-> 0,
          time_diffs |-> <<>>, douyin_diffs |-> <<>>, tiktok_diffs |-> <<>>]
    ELSE results

\* lines 308-315
results0 ==
    [total |-> 0, exact_match |-> 0, close_match |-> 0,
     time_diffs |-> <<>>, douyin_diffs |-> <<>>, tiktok_diffs |-> <<>>]

\* lines 329-332
time_diff_of(dec, video) == Sub(ParseInt(dec.timestamp_sec), video.create_time)

\* mutant: the platform lists collect the absolute difference, as time_diffs
\* does
collect_abs(res, source, time_diff) ==
    [res EXCEPT
        !.total = @ + 1,
        !.time_diffs = Append(@, Abs(time_diff)),
        !.douyin_diffs = IF source = "Douyin" THEN Append(@, Abs(time_diff)) ELSE @,
        !.tiktok_diffs = IF source = "Douyin" THEN @ ELSE Append(@, Abs(time_diff))]


\* mutant: time_diffs collects the signed difference
collect_signed(res, source, time_diff) ==
    [res EXCEPT
        !.total = @ + 1,
        !.time_diffs = Append(@, time_diff),
        !.douyin_diffs = IF source = "Douyin" THEN Append(@, time_diff) ELSE @,
        !.tiktok_diffs = IF source = "Douyin" THEN @ ELSE Append(@, time_diff)]

\* lines 335-341
collect(res, source, time_diff) ==
    [res EXCEPT
        !.total = @ + 1,
        !.time_diffs = Append(@, Abs(time_diff)),
        !.douyin_diffs = IF source = "Douyin" THEN Append(@, time_diff) ELSE @,
        !.tiktok_diffs = IF source = "Douyin" THEN @ ELSE Append(@, time_diff)]

\* lines 344-351: the counters
classify(res, time_diff) ==
    IF time_diff = Zero
    THEN [res EXCEPT !.exact_match = @ + 1]
    ELSE IF LessEq(Abs(time_diff), Nat2Int(5))
         THEN [res EXCEPT !.close_match = @ + 1]
         ELSE res

\* mutant: a difference of exactly 5 seconds no longer counts as close
status_of_below5(time_diff) ==
    IF time_diff = Zero
    THEN [kind |-> "Exact match"]
    ELSE IF Less(Abs(time_diff), Nat2Int(5))
         THEN [kind |-> "Close", error |-> time_diff]
         ELSE [kind |-> "Error", error |-> time_diff]

\* lines 344-351: the status text, as its kind and the error it quotes
status_of(time_diff) ==
    IF time_diff = Zero
    THEN [kind |-> "Exact match"]
    ELSE IF LessEq(Abs(time_diff), Nat2Int(5))
         THEN [kind |-> "Close", error |-> time_diff]
         ELSE [kind |-> "Error", error |-> time_diff]

\* x / y for y # 0.  Python's float quotient is kept as the exact fraction.
Quotient(x, y) == [num |-> x, den |-> y]

\* x / y * 100 for counters x and y
Percent(x, y) == Quotient(x * 100, y)

\* lines 383-395, for one platform's list
platform_report(diffs) ==
    IF diffs = <<>> THEN None
    ELSE [count |-> Len(diffs),
          avg |-> Quotient(SumSeq(diffs), Len(diffs)),
          range_min |-> MinSeq(diffs),
          range_max |-> MaxSeq(diffs)]

\* mutant: only exact matches count towards the rate
accuracy_rate_exact_only(res) == Percent(res.exact_match, res.total)

\* line 402
accuracy_rate(res) == Percent(res.exact_match + res.close_match, res.total)

\* lines 365-412.  The first division by results["total"] is in line 367.
statistics_report(res) ==
    IF res.total = 0 THEN [raised |-> "ZeroDivisionError"]
    ELSE [total |-> res.total,
          exact_match |-> res.exact_match,
          exact_pct |-> Percent(res.exact_match, res.total),
          close_match |-> res.close_match,
          close_pct |-> Percent(res.close_match, res.total),
          large_error |-> res.total - res.exact_match - res.close_match,
          error_analysis |->
              IF res.time_diffs = <<>> THEN None
              ELSE [avg_diff |-> Quotient(SumSeq(res.time_diffs), Len(res.time_diffs)),
                    max_diff |-> MaxSeq(res.time_diffs),
                    min_diff |-> MinSeq(res.time_diffs)],
          douyin |-> platform_report(res.douyin_diffs),
          tiktok |-> platform_report(res.tiktok_diffs),
          accuracy_rate |-> accuracy_rate(res),
          conclusion |->
              LET hits == res.exact_match + res.close_match
              IN  IF hits * 100 >= 95 * res.total THEN "highly accurate"
                  ELSE IF hits * 100 >= 80 * res.total THEN "good"
                  ELSE "significant errors"]

---------------------------------------------------------------------------
(* statistical_analysis                                                    *)

\* the order of the characters that occur in the strings compared
CharOrder == <<"+", "-", ".", "0", "1", "2", "3", "4", "5", "6", "7", "8", "9">>

Ord(c) == CHOOSE i \in 1..Len(CharOrder) : CharOrder[i] = c

\* a < b for str: the first differing character decides, a proper prefix is
\* smaller
RECURSIVE StrLessFrom(_, _, _)
StrLessFrom(a, b, i) ==
    IF i > Len(b) THEN FALSE
    ELSE IF i > Len(a) THEN TRUE
    ELSE IF a[i] = b[i] THEN StrLessFrom(a, b, i + 1)
    ELSE Ord(a[i]) < Ord(b[i])

StrLess(a, b) == StrLessFrom(a, b, 1)

\* p < q for tuples of two str
PairLess(p, q) == StrLess(p[1], q[1]) \/ (p[1] = q[1] /\ StrLess(p[2], q[2]))

\* x put into the sorted list q, after the elements equal to it
RECURSIVE Insert(_, _)
Insert(q, x) ==
    IF q = <<>> THEN <<x>>
    ELSE IF PairLess(x, Head(q)) THEN <<x>> \o q
    ELSE <<Head(q)>> \o Insert(Tail(q), x)

\* list.sort()
RECURSIVE Sorted(_)
Sorted(q) == IF q = <<>> THEN <<>> ELSE Insert(Sorted(SubSeq(q, 1, Len(q) - 1)), q[Len(q)])

\* The platform_labels argument is None or List(l) for a Python list l.
List(l) == [list |-> l]

\* truth value of the platform_labels argument: None and [] are false
HasLabels(platform_labels) == platform_labels # None /\ platform_labels.list # <<>>

\* lines 203 and 246: the label of the record at list index i - 1
label_of(platform_labels, i) ==
    IF HasLabels(platform_labels) THEN platform_labels.list[i]
    ELSE <<"I", "D">> \o Str(Nat2Int(i))

\* mutant: a key keeps only the last record appended under it
RECURSIVE append_each_last(_, _, _)
append_each_last(keys, items, n) ==
    IF n = 0 THEN <<>>
    ELSE LET counts == append_each_last(keys, items, n - 1)
         IN  [k \in DOMAIN counts \cup {keys[n]} |->
                 IF k = keys[n] THEN <<items[n]>> ELSE counts[k]]

\* a defaultdict(list) after counts[keys[i]].append(items[i]) for i = 1..n
RECURSIVE append_each(_, _, _)
append_each(keys, items, n) ==
    IF n = 0 THEN <<>>
    ELSE LET counts == append_each(keys, items, n - 1)
         IN  [k \in DOMAIN counts \cup {keys[n]} |->
                 IF k = keys[n]
                 THEN (IF k \in DOMAIN counts THEN counts[k] ELSE <<>>) \o <<items[n]>>
                 ELSE counts[k]]

\* the entries of a dict whose list holds more than one item
more_than_one(counts) == [k \in {x \in DOMAIN counts : Len(counts[x]) > 1} |-> counts[k]]

SeqSet(q) == {q[i] : i \in 1..Len(q)}

\* lines 263-271, for the records of one platform
platform_summary(pdata) ==
    LET seqs == [i \in 1..Len(pdata) |-> pdata[i].low32_analysis.scheme3_16_16.sequence]
        shards == [i \in 1..Len(pdata) |-> pdata[i].low32_analysis.scheme3_16_16.shard_id]
    IN  [videos |-> Len(pdata),
         sequence_range |-> <<MinSeq(seqs), MaxSeq(seqs)>>,
         shard_range |-> <<MinSeq(shards), MaxSeq(shards)>>,
         unique_sequences |-> <<Cardinality(SeqSet(seqs)), Len(seqs)>>,
         unique_shards |-> <<Cardinality(SeqSet(shards)), Len(shards)>>]

\* the keys of both records, with their values
Merge(r1, r2) ==
    [k \in DOMAIN r1 \cup DOMAIN r2 |-> IF k \in DOMAIN r1 THEN r1[k] ELSE r2[k]]

\* lines 208-228: the two dicts and their entries that repeat
counts_sections(sequence_counts, shard_counts) ==
    [sequence_counts |-> sequence_counts,
     shard_counts |-> shard_counts,
     duplicates |-> more_than_one(sequence_counts),
     shard_repeats |-> more_than_one(shard_counts)]

\* lines 235-240
time_span_of(earliest, latest, time_diff) ==
    [earliest |-> earliest,
     latest |-> latest,
     time_diff |-> time_diff,
     hours |-> Quotient(time_diff, 3600),
     days |-> Quotient(time_diff, 86400)]

\* lines 256-271: one summary per platform label
platform_sections(platform_data) ==
    [p \in DOMAIN platform_data |-> platform_summary(platform_data[p])]

\* the labels of the records at list indexes 0..n-1
RECURSIVE label_each(_, _)
label_each(platform_labels, n) ==
    IF n = 0 THEN <<>>
    ELSE Append(label_each(platform_labels, n - 1), label_of(platform_labels, n))

\* lines 186-189: data after decode_aweme_id(ids[i], analyze_low32=True) has
\* been appended for i = 1..n
RECURSIVE decode_each(_, _)
decode_each(ids, n) ==
    IF n = 0 THEN <<>>
    ELSE Append(decode_each(ids, n - 1), decode_aweme_id(ids[n], TRUE))

\* lines 232-240: the span between the first and the last of the sorted
\* (timestamp_sec, id) pairs; both fields are strings
time_span(timestamps, n) ==
    time_span_of(timestamps[1][1], timestamps[n][1],
                 Sub(ParseInt(timestamps[n][1]), ParseInt(timestamps[1][1])))

\* lines 191-271 for decoded records data and their labels: what is printed,
\* section by section, or the exception that ends it together with the
\* sections printed before.  The order in which the keys of a dict are
\* printed and the date strings are left out.
analysis_sections(data, labels, platform_labels) ==
    LET n == Len(data)
        entries == [i \in 1..n |-> <<labels[i], data[i].id>>]
        seqs == [i \in 1..n |-> data[i].low32_analysis.scheme3_16_16.sequence]
        shards == [i \in 1..n |-> data[i].low32_analysis.scheme3_16_16.shard_id]
        byte0s == [i \in 1..n |-> data[i].low32_analysis.scheme4_bytes.byte0]
        printed == counts_sections(append_each(seqs, entries, n),
                                   append_each(shards, entries, n))
    IN  IF n = 0
        THEN [k \in DOMAIN printed \cup {"raised"} |->
                 IF k = "raised" THEN "IndexError" ELSE printed[k]]
        ELSE Merge(Merge(printed,
                         time_span(Sorted([i \in 1..n |->
                                       <<data[i].timestamp_sec, data[i].id>>]), n)),
                   [byte0_counts |-> append_each(byte0s, labels, n),
                    platforms |->
                        IF HasLabels(platform_labels)
                        THEN platform_sections(append_each(labels, data, n))
                        ELSE None])

\* lines 186-189 followed by the sections: a decode that raises ends the
\* function before anything is printed
decoded_sections(data, platform_labels) ==
    IF \E i \in 1..Len(data) : Raised(data[i])
    THEN data[CHOOSE i \in 1..Len(data) :
                 Raised(data[i]) /\ \A j \in 1..(i - 1) : ~Raised(data[j])]
    ELSE analysis_sections(data, label_each(platform_labels, Len(data)),
                           platform_labels)

statistical_analysis(ids, platform_labels) ==
    decoded_sections(decode_each(ids, Len(ids)), platform_labels)

---------------------------------------------------------------------------
(* The program                                                             *)

Init ==
    /\ pc = "idle"
    /\ forged = None
    /\ decoded = None
    /\ videos = <<>>
    /\ vi = 0
    /\ results = None
    /\ status = None
    /\ flagged = <<>>
    /\ report = None
    /\ sa_args = None
    /\ sa_out = None
    /\ past = <<>>

\* forge_aweme_like_id(ts_sec, low32)
Forge(ts_sec, low32) ==
    /\ pc = "idle"
    /\ forged' = [ts_sec |-> ts_sec, low32 |-> low32, randbits |-> None,
                  id |-> forge_aweme_like_id(ts_sec, low32, None)]
    /\ pc' = "forged"
    /\ UNCHANGED <<decoded, validatorVars, correlatorVars, past>>

\* forge_aweme_like_id(ts_sec): low32 is drawn by secrets.randbits(32)
ForgeRandom(ts_sec, randbits) ==
    /\ pc = "idle"
    /\ forged' = [ts_sec |-> ts_sec, low32 |-> None, randbits |-> randbits,
                  id |-> forge_aweme_like_id(ts_sec, None, randbits)]
    /\ pc' = "forged"
    /\ UNCHANGED <<decoded, validatorVars, correlatorVars, past>>

\* decode_aweme_id(str(fake_id), analyze_low32=True)   (lines 543-547)
DecodeForged ==
    /\ pc = "forged"
    /\ decoded' = [id_str |-> Str(forged.id), analyze_low32 |-> TRUE,
                   result |-> decode_aweme_id(Str(forged.id), TRUE)]
    /\ pc' = "roundtrip"
    /\ UNCHANGED <<forged, validatorVars, correlatorVars, past>>

\* decode_aweme_id(id_str, analyze_low32)
Decode(id_str, analyze_low32) ==
    /\ pc = "idle"
    /\ decoded' = [id_str |-> id_str, analyze_low32 |-> analyze_low32,
                   result |-> decode_aweme_id(id_str, analyze_low32)]
    /\ pc' = "decoded"
    /\ UNCHANGED <<forged, validatorVars, correlatorVars, past>>

\* validate_decode_algorithm, lines 298-319: the corpus is loaded and the
\* results dict set up
ValidateStart(corpus) ==
    /\ pc = "idle"
    /\ videos' = corpus
    /\ vi' = 0
    /\ results' = results0
    /\ pc' = "validating"
    /\ UNCHANGED <<codecVars, status, flagged, report, correlatorVars, past>>

\* validate_decode_algorithm, lines 321-358: one turn of the for loop
ValidateStep ==
    /\ pc = "validating"
    /\ vi < Len(videos)
    /\ LET video == videos[vi + 1]
           dec == decode_aweme_id(video.aweme_id, FALSE)
       IN  IF Raised(dec)
           THEN /\ pc' = "raised"
                /\ report' = dec
                /\ UNCHANGED <<vi, results, status, flagged>>
           ELSE LET time_diff == time_diff_of(dec, video)
                IN  /\ vi' = vi + 1
                    /\ results' = classify(collect(results, video.source, time_diff),
                                           time_diff)
                    /\ status' = status_of(time_diff)
                    /\ flagged' = IF Less(Nat2Int(5), Abs(time_diff))
                                  THEN Append(flagged, video.aweme_id)
                                  ELSE flagged
                    /\ UNCHANGED <<pc, report>>
    /\ UNCHANGED <<codecVars, videos, correlatorVars, past>>

\* validate_decode_algorithm, lines 360-418: the statistics report
ValidateReport ==
    /\ pc = "validating"
    /\ vi = Len(videos)
    /\ report' = statistics_report(results)
    /\ pc' = IF Raised(report') THEN "raised" ELSE "validated"
    /\ UNCHANGED <<codecVars, videos, vi, results, status, flagged, correlatorVars,
                   past>>

\* decode_aweme_id called once more with the arguments of the last call
DecodeAgain ==
    /\ pc = "decoded"
    /\ Len(past) < MaxRuns - 1
    /\ past' = Append(past, decoded.result)
    /\ decoded' = [decoded EXCEPT
                      !.result = decode_aweme_id(decoded.id_str, decoded.analyze_low32)]
    /\ UNCHANGED <<pc, forged, validatorVars, correlatorVars>>

\* validate_decode_algorithm called once more on the same JSON file: lines
\* 298-319 of the new call, after the one before has ended
ValidateAgain ==
    /\ pc \in {"validated", "raised"}
    /\ results # None
    /\ Len(past) < MaxRuns - 1
    /\ past' = Append(past, [results |-> results, status |-> status,
                             flagged |-> flagged, report |-> report])
    /\ vi' = 0
    /\ results' = results0
    /\ status' = None
    /\ flagged' = <<>>
    /\ report' = None
    /\ pc' = "validating"
    /\ UNCHANGED <<codecVars, videos, correlatorVars>>

\* statistical_analysis(ids, platform_labels)
StatisticalAnalysis(ids, platform_labels) ==
    /\ pc = "idle"
    /\ sa_args' = [ids |-> ids, platform_labels |-> platform_labels]
    /\ sa_out' = statistical_analysis(ids, platform_labels)
    /\ pc' = IF Raised(sa_out') THEN "raised" ELSE "analysed"
    /\ UNCHANGED <<codecVars, validatorVars, past>>

Next ==
    \/ \E t \in TsPool, l \in LowPool : Forge(t, l)
    \/ \E t \in TsPool, r \in RandPool : ForgeRandom(t, r)
    \/ DecodeForged
    \/ \E s \in IdStrPool, a \in BOOLEAN : Decode(s, a)
    \/ \E corpus \in SeqsUpTo(VideoPool, MaxVideos) : ValidateStart(corpus)
    \/ ValidateStep
    \/ ValidateReport
    \/ ValidateAgain
    \/ DecodeAgain
    \/ \E ids \in SeqsUpTo(IdPool, MaxIds) :
          \E platform_labels \in LabelsFor(ids) :
             StatisticalAnalysis(ids, platform_labels)

Spec == Init /\ [][Next]_vars

---------------------------------------------------------------------------
(* Codec claims                                                            *)

\* C1: round trip.  For every timestamp t in [0, 2^32) and every low-32
\* value l in [0, 2^32), decoding the text of the id forged from (t, l)
\* succeeds and yields timestamp_sec = t and low32 = l.
C1_RoundTrip ==
    (/\ pc = "roundtrip"
     /\ forged.low32 # None
     /\ InU32(forged.ts_sec)
     /\ InU32(forged.low32))
    => /\ ~Raised(decoded.result)
       /\ ParseInt(decoded.result.timestamp_sec) = forged.ts_sec
       /\ ParseInt(decoded.result.low32_dec) = forged.low32

\* C1 witness: the largest timestamp and a low-32 value with bits set in
\* both halves went through forge and decode.
C1_Witness ==
    /\ pc = "roundtrip"
    /\ forged.ts_sec = Sub(Two32, One)
    /\ forged.low32 = Limbs2Int(<<\hBEEF, \hDEAD>>)
    /\ ~Raised(decoded.result)
    /\ decoded.result.low32_hex = <<"0", "x", "d", "e", "a", "d", "b", "e", "e", "f">>

C2_BadId(id_str) == IsIntLiteral(id_str) /\ ~InU64(ParseInt(id_str))

C2_BadFields(f) ==
    \/ ~InU32(f.ts_sec)
    \/ (f.low32 # None /\ ~InU32(f.low32))

\* C2: InvalidInput.  decode rejects every id that is negative or above
\* 2^64-1, and encode rejects every timestamp or low-32 value outside
\* [0, 2^32), with an InvalidInput error; none is coerced into a result.
C2_InvalidInputRejected ==
    /\ (pc = "decoded" /\ C2_BadId(decoded.id_str))
       => decoded.result = [raised |-> "InvalidInput"]
    /\ (pc = "forged" /\ C2_BadFields(forged))
       => forged.id = [raised |-> "InvalidInput"]

\* the four layouts the claim names: fields as (name, width, offset)
C5_Layout ==
    [scheme1_10_10_12 |-> <<<<"datacenter_id", 10, 22>>, <<"worker_id", 10, 12>>,
                            <<"sequence", 12, 0>>>>,
     scheme2_8_8_16   |-> <<<<"datacenter_id", 8, 24>>, <<"worker_id", 8, 16>>,
                            <<"sequence", 16, 0>>>>,
     scheme3_16_16    |-> <<<<"shard_id", 16, 16>>, <<"sequence", 16, 0>>>>,
     scheme4_bytes    |-> <<<<"byte3", 8, 24>>, <<"byte2", 8, 16>>,
                            <<"byte1", 8, 8>>, <<"byte0", 8, 0>>>>]

\* bit i of an integer
C5_Bit(a, i) == (Limb(a, (i \div LimbBits) + 1) \div 2 ^ (i % LimbBits)) % 2

RECURSIVE C5_SumWidths(_)
C5_SumWidths(fields) ==
    IF fields = <<>> THEN 0 ELSE Head(fields)[2] + C5_SumWidths(Tail(fields))

\* every field shifted back to its offset, OR-ed together
RECURSIVE C5_Reassemble(_, _)
C5_Reassemble(fields, values) ==
    IF fields = <<>> THEN Zero
    ELSE Or(Shl(values[Head(fields)[1]], Head(fields)[3]),
            C5_Reassemble(Tail(fields), values))

C5_Analysed ==
    /\ pc \in {"decoded", "roundtrip"}
    /\ ~Raised(decoded.result)
    /\ "low32_analysis" \in DOMAIN decoded.result

\* C5: partition coverage.  Under each of the four schemes every field is
\* the bits [offset, offset + width) of low32 and lies in [0, 2^width), the
\* widths sum to 32, every bit of [0, 32) belongs to exactly one field, and
\* OR-ing the fields shifted back by their offsets gives low32.
C5_PartitionCoverage ==
    C5_Analysed =>
        LET low32 == ParseInt(decoded.result.low32_dec)
            analysis == decoded.result.low32_analysis
        IN  /\ DOMAIN analysis = DOMAIN C5_Layout
            /\ \A sch \in DOMAIN C5_Layout :
                LET fields == C5_Layout[sch]
                    values == analysis[sch]
                IN  /\ DOMAIN values = {fields[i][1] : i \in 1..Len(fields)}
                    /\ C5_SumWidths(fields) = 32
                    /\ \A b \in 0..31 :
                          Cardinality({i \in 1..Len(fields) :
                                          /\ fields[i][3] <= b
                                          /\ b < fields[i][3] + fields[i][2]}) = 1
                    /\ \A i \in 1..Len(fields) :
                          LET v == values[fields[i][1]]
                          IN  /\ LessEq(Zero, v)
                              /\ Less(v, Pow2(fields[i][2]))
                              /\ \A j \in 0..(fields[i][2] - 1) :
                                    C5_Bit(v, j) = C5_Bit(low32, fields[i][3] + j)
                    /\ C5_Reassemble(fields, values) = low32

\* C5 witness: a low32 with only bit 12 clear was analysed: the lowest bit
\* of scheme 1's worker_id is the one that is 0.
C5_Witness ==
    /\ C5_Analysed
    /\ ParseInt(decoded.result.low32_dec) = Sub(Mask32, Pow2(12))
    /\ decoded.result.low32_analysis.scheme1_10_10_12.worker_id = Nat2Int(\h3FE)
    /\ decoded.result.low32_analysis.scheme1_10_10_12.sequence = Nat2Int(\hFFF)

C6_ValidId ==
    /\ pc \in {"decoded", "roundtrip"}
    /\ IsIntLiteral(decoded.id_str)
    /\ InU64(ParseInt(decoded.id_str))

\* C6: DecodedId invariant.  For every id in [0, 2^64) decode succeeds,
\* timestamp_sec and low32 both lie in [0, 2^32), and
\* id = timestamp_sec * 2^32 + low32 = (timestamp_sec << 32) | low32, which
\* makes timestamp_sec the id shifted right by 32 and low32 its low 32 bits.
C6_DecodedIdInvariant ==
    C6_ValidId =>
        /\ ~Raised(decoded.result)
        /\ LET n == ParseInt(decoded.id_str)
               ts == ParseInt(decoded.result.timestamp_sec)
               low == ParseInt(decoded.result.low32_dec)
           IN  /\ InU32(ts)
               /\ InU32(low)
               /\ Add(Shl(ts, 32), low) = n
               /\ Or(Shl(ts, 32), low) = n
               /\ \A b \in 0..31 : C5_Bit(low, b) = C5_Bit(n, b)
               /\ \A b \in 0..31 : C5_Bit(ts, b) = C5_Bit(n, 32 + b)

\* C6 witness: the largest 64-bit id and the first sample id of the source
\* were decoded.
C6_Witness ==
    /\ C6_ValidId
    /\ decoded.id_str \in {Str(Sub(Two64, One)), Douyin1}
    /\ ~Raised(decoded.result)
    /\ decoded.result.timestamp_sec
         \in {Str(Sub(Two32, One)),
              <<"1", "6", "6", "5", "5", "6", "5", "6", "3", "4">>}

---------------------------------------------------------------------------
(* Validator claims                                                        *)

\* decoded timestamp minus ground-truth timestamp of a record
Delta(video) == Sub(ts_sec_of(ParseInt(video.aweme_id)), video.create_time)

\* the small integer k as a difference
Seconds(k) == IF k < 0 THEN Neg(Nat2Int(-k)) ELSE Nat2Int(k)

\* the non-zero differences of at most 5 seconds either way
CloseDeltas == {Seconds(k) : k \in (-5..5) \ {0}}

IsExact(video) == Delta(video) = Zero
IsClose(video) == Delta(video) \in CloseDeltas
IsDivergent(video) == ~IsExact(video) /\ ~IsClose(video)

\* C3: empty corpus on validation.  The validator run over zero records
\* ends in the EmptyCorpus outcome: no accuracy rate, no other error.
C3_EmptyCorpusOutcome ==
    (pc \in {"validated", "raised"} /\ results # None /\ videos = <<>>)
    => report \in {[raised |-> "EmptyCorpus"], [outcome |-> "EmptyCorpus"]}

\* C4: classification boundary.  The record the loop has just handled is
\* classified Exact when its delta is 0, Close when the delta is one of
\* -5..-1, 1..5, and Divergent otherwise (so from 6 and -6 on); it gets
\* exactly one of the three classes, and only a Divergent one is printed as
\* a large error.
C4_ClassificationBoundary ==
    (pc \in {"validating", "validated"} /\ vi >= 1) =>
        LET video == videos[vi]
        IN  /\ status.kind \in {"Exact match", "Close", "Error"}
            /\ status.kind = "Exact match" <=> IsExact(video)
            /\ status.kind = "Close" <=> IsClose(video)
            /\ status.kind = "Error" <=> IsDivergent(video)
            /\ Delta(video) \in {Seconds(5), Seconds(-5)} => status.kind = "Close"
            /\ Delta(video) \in {Seconds(6), Seconds(-6)} => status.kind = "Error"
            /\ Len(flagged) = results.total - results.exact_match - results.close_match
            /\ Len(flagged) = Cardinality({i \in 1..vi : IsDivergent(videos[i])})
            /\ IsDivergent(video) => flagged[Len(flagged)] = video.aweme_id

\* C4 witness: records with deltas -5, +5 and +6 were classified in turn:
\* two Close, and the last one Divergent.
C4_Witness ==
    /\ pc = "validating"
    /\ vi = 3
    /\ Delta(videos[1]) = Seconds(-5)
    /\ Delta(videos[2]) = Seconds(5)
    /\ Delta(videos[3]) = Seconds(6)
    /\ status = [kind |-> "Error", error |-> Seconds(6)]
    /\ results.close_match = 2
    /\ results.exact_match = 0

CountOf(P(_)) == Cardinality({i \in 1..Len(videos) : P(videos[i])})

\* C7: corpus accuracy.  For a non-empty corpus the exact, close and
\* divergent counts are the numbers of records of each class and sum to the
\* number of records, the accuracy rate is (exact + close) / total * 100,
\* and when every record is exact, exact_match = total and the rate is 100.
C7_CorpusAccuracy ==
    pc = "validated" =>
        /\ Len(videos) > 0
        /\ report.total = Len(videos)
        /\ report.exact_match = CountOf(IsExact)
        /\ report.close_match = CountOf(IsClose)
        /\ report.large_error = CountOf(IsDivergent)
        /\ report.exact_match + report.close_match + report.large_error = report.total
        /\ report.accuracy_rate.den > 0
        /\ report.accuracy_rate.num * Len(videos)
             = 100 * (CountOf(IsExact) + CountOf(IsClose)) * report.accuracy_rate.den
        /\ (\A i \in 1..Len(videos) : IsExact(videos[i]))
           => /\ report.exact_match = report.total
              /\ report.accuracy_rate.num = 100 * report.accuracy_rate.den

\* C7 witness: a corpus of one exact, one close and one divergent record
\* was validated: the rate is 200/3 per cent.
C7_Witness ==
    /\ pc = "validated"
    /\ Len(videos) = 3
    /\ report.exact_match = 1
    /\ report.close_match = 1
    /\ report.large_error = 1
    /\ report.accuracy_rate = [num |-> 200, den |-> 3]

\* the differences of the records a group holds, in corpus order: the
\* Douyin group holds the records labelled "Douyin", the TikTok group the
\* others
GroupVideos(douyin) ==
    SelectSeq(videos, LAMBDA v : (v.source = "Douyin") <=> douyin)

GroupDeltas(douyin) ==
    [i \in 1..Len(GroupVideos(douyin)) |-> Delta(GroupVideos(douyin)[i])]

AbsSeq(q) == [i \in 1..Len(q) |-> Abs(q[i])]

GroupStats(q) ==
    IF q = <<>> THEN None
    ELSE [count |-> Len(q), avg |-> Quotient(SumSeq(q), Len(q)),
          range_min |-> MinSeq(q), range_max |-> MaxSeq(q)]

---------------------------------------------------------------------------
(* Correlator claims                                                       *)

\* the 16/16 sub-fields of an id, read from its text
ShardOf(id) == And(Shr(ParseInt(id), 16), Nat2Int(\hFFFF))
SequenceOf(id) == And(ParseInt(id), Nat2Int(\hFFFF))

\* the (label, id) pair of the corpus record at position i
EntryOf(i) ==
    <<IF sa_args.platform_labels = None
      THEN <<"I", "D", <<"1", "2", "3", "4", "5", "6", "7", "8", "9">>[i]>>
      ELSE sa_args.platform_labels.list[i],
      sa_args.ids[i]>>

\* the pairs of the records whose sub-field value is k, in corpus order
GroupOf(Field(_), k) ==
    LET members == SelectSeq([i \in 1..Len(sa_args.ids) |-> i],
                             LAMBDA i : Field(sa_args.ids[i]) = k)
    IN  [j \in 1..Len(members) |-> EntryOf(members[j])]

\* the groups of one sub-field partition the corpus, and the repeats are
\* the groups of two records or more, pair by pair
CollisionReport(counts, repeats, Field(_)) ==
    /\ DOMAIN counts = {Field(sa_args.ids[i]) : i \in 1..Len(sa_args.ids)}
    /\ \A k \in DOMAIN counts : counts[k] = GroupOf(Field, k)
    /\ Cardinality({<<k, j>> \in (DOMAIN counts) \X (1..Len(sa_args.ids)) :
                       j <= Len(counts[k])}) = Len(sa_args.ids)
    /\ DOMAIN repeats = {k \in DOMAIN counts : Len(counts[k]) >= 2}
    /\ \A k \in DOMAIN repeats : repeats[k] = GroupOf(Field, k)

\* C9: collision report.  For the sub-fields shard_id and sequence of the
\* 16/16 scheme, every record of the corpus is in exactly one group, the
\* group of its own sub-field value; a value is reported as repeated exactly
\* when its group holds two records or more, and the report lists the
\* (label, id) pair of every record of the group.
C9_CollisionReport ==
    (pc \in {"analysed", "raised"} /\ "sequence_counts" \in DOMAIN sa_out)
    => /\ CollisionReport(sa_out.sequence_counts, sa_out.duplicates, SequenceOf)
       /\ CollisionReport(sa_out.shard_counts, sa_out.shard_repeats, ShardOf)

\* C9 witness: two distinct ids of shard 29825 with different sequences
\* were analysed; both are listed under that shard and no sequence repeats.
C9_Witness ==
    /\ pc = "analysed"
    /\ sa_args.ids = <<Douyin1, Str(Limbs2Int(<<7, 29825, 9>>))>>
    /\ sa_args.platform_labels = List(<<"Douyin-1", "TikTok-1">>)
    /\ DOMAIN sa_out.shard_repeats = {Nat2Int(29825)}
    /\ sa_out.shard_repeats[Nat2Int(29825)]
         = << <<"Douyin-1", Douyin1>>,
              <<"TikTok-1", Str(Limbs2Int(<<7, 29825, 9>>))>> >>
    /\ DOMAIN sa_out.duplicates = {}

\* C10: empty corpus on correlation.  statistical_analysis run over zero
\* records ends in the EmptyCorpus outcome: no other error leaves it and no
\* statistics are reported.
C10_EmptyCorpusResult ==
    (pc \in {"analysed", "raised"} /\ sa_args # None /\ sa_args.ids = <<>>)
    => sa_out \in {[raised |-> "EmptyCorpus"], [outcome |-> "EmptyCorpus"]}

---------------------------------------------------------------------------
(* Forging with a drawn low32                                              *)

\* C11: forging with low32 left out.  For every timestamp t in [0, 2^32) and
\* every value r that the 32-bit draw can return, the forged id is in
\* [0, 2^64), its high 32 bits are t whatever was drawn, its low 32 bits are
\* r, and decoding its text yields timestamp_sec = t and low32 = r.
C11_ForgeWithDraw ==
    (/\ pc \in {"forged", "roundtrip"}
     /\ forged.low32 = None
     /\ InU32(forged.ts_sec))
    => /\ InU32(forged.randbits)
       /\ InU64(forged.id)
       /\ Shr(forged.id, 32) = forged.ts_sec
       /\ And(forged.id, Mask32) = forged.randbits
       /\ \A r \in RandPool :
             Shr(forge_aweme_like_id(forged.ts_sec, None, r), 32) = forged.ts_sec
       /\ pc = "roundtrip" =>
             /\ ~Raised(decoded.result)
             /\ ParseInt(decoded.result.timestamp_sec) = forged.ts_sec
             /\ ParseInt(decoded.result.low32_dec) = forged.randbits

\* C11 witness: an id forged from a timestamp of ten digits and a draw with
\* bits set in both halves was decoded.
C11_Witness ==
    /\ pc = "roundtrip"
    /\ forged.low32 = None
    /\ forged.ts_sec = Nat2Int(1665565634)
    /\ forged.randbits = Limbs2Int(<<\h0D23, \h7481>>)
    /\ ~Raised(decoded.result)
    /\ decoded.result.timestamp_sec
         = <<"1", "6", "6", "5", "5", "6", "5", "6", "3", "4">>
    /\ decoded.result.low32_dec = Str(Limbs2Int(<<\h0D23, \h7481>>))

---------------------------------------------------------------------------
(* Repeated calls                                                          *)

\* what a run of the validator leaves behind
ValidatorOutcome ==
    [results |-> results, status |-> status, flagged |-> flagged, report |-> report]

---------------------------------------------------------------------------
(* Time distribution                                                       *)

\* the timestamps of the analysed ids as numbers, in corpus order
TimestampsOf(ids) == [i \in 1..Len(ids) |-> Shr(ParseInt(ids[i]), 32)]

\* C13: time distribution.  For a non-empty list of valid ids the reported
\* span is not negative and is the numerically largest timestamp minus the
\* numerically smallest, and the values reported as earliest and latest are
\* that minimum and that maximum, whatever the number of digits of the
\* timestamps and the order of the ids.
C13_TimeSpanNumeric ==
    pc = "analysed"
    => /\ LessEq(Zero, sa_out.time_diff)
       /\ ParseInt(sa_out.earliest) = MinSeq(TimestampsOf(sa_args.ids))
       /\ ParseInt(sa_out.latest) = MaxSeq(TimestampsOf(sa_args.ids))
       /\ sa_out.time_diff = Sub(MaxSeq(TimestampsOf(sa_args.ids)),
                                 MinSeq(TimestampsOf(sa_args.ids)))

---------------------------------------------------------------------------
(* The accumulators of the validator                                       *)

\* the records the loop has taken so far
Taken == SubSeq(videos, 1, vi)

\* the deltas of the taken records that are (douyin) or are not labelled
\* "Douyin", in corpus order
TakenDeltas(douyin) ==
    LET group == SelectSeq(Taken, LAMBDA v : (v.source = "Douyin") <=> douyin)
    IN  [i \in 1..Len(group) |-> Delta(group[i])]

\* C14: the accumulators.  After the loop has taken k records, total = k =
\* len(time_diffs) = len(douyin_diffs) + len(tiktok_diffs), exact_match +
\* close_match <= total, no entry of time_diffs is negative, exact_match is
\* the number of zero entries of time_diffs, and douyin_diffs holds the
\* deltas of exactly the records whose source is "Douyin".
C14_Accumulators ==
    results # None
    => /\ results.total = vi
       /\ Len(results.time_diffs) = vi
       /\ Len(results.douyin_diffs) + Len(results.tiktok_diffs) = vi
       /\ results.exact_match + results.close_match <= results.total
       /\ \A i \in 1..vi : LessEq(Zero, results.time_diffs[i])
       /\ \A i \in 1..vi : results.time_diffs[i] = Abs(Delta(videos[i]))
       /\ results.exact_match
            = Cardinality({i \in 1..vi : results.time_diffs[i] = Zero})
       /\ results.douyin_diffs = TakenDeltas(TRUE)
       /\ results.tiktok_diffs = TakenDeltas(FALSE)

\* C14 witness: the loop has taken two of three records, a Douyin record
\* with delta -6 and a TikTok record with delta +5, and an exact record is
\* still to come.
C14_Witness ==
    /\ pc = "validating"
    /\ Len(videos) = 3
    /\ vi = 2
    /\ IsExact(videos[3])
    /\ results.total = 2
    /\ results.time_diffs = <<Seconds(6), Seconds(5)>>
    /\ results.douyin_diffs = <<Seconds(-6)>>
    /\ results.tiktok_diffs = <<Seconds(5)>>
    /\ results.exact_match = 0
    /\ results.close_match = 1

====
